---- MODULE Spec2Model ----
(***************************************************************************)
(* Model of the announcements router (backend/routers/announcements.py):   *)
(* five request handlers over one document collection.  Every store call   *)
(* is one atomic step; the three store calls of update_announcement are    *)
(* separate steps, so other requests interleave between them.              *)
(***************************************************************************)
EXTENDS Integers, Sequences, FiniteSets, TLC

(* ---------------------------- bounds ----------------------------------- *)

\* number of requests started in one behaviour (also the value of the clock)
MaxReqs == 3

\* request slots that run concurrently
Procs == {1, 2}

(* ---------------------------- inputs ----------------------------------- *)

\* Python None (an Optional field that was not supplied)
None == "None"

\* the username query parameter; "" is the empty caller
Usernames == {"", "alice"}

\* the message of a create request, and the message an update may supply
Messages == {"m1"}

NewMessages == {"m2"}

\* date strings a client sends; the characters of each are given by Chars
DateStrings == {"soon", "2025-9-1", "2025-10-01"}

\* the server's current date, as (year, month, day)
Todays == {<<2025, 9, 1>>, <<2025, 10, 1>>}

(* ------------------- strings, as Python and the store see them --------- *)

Chars(s) ==
    CASE s = "soon"       -> <<"s", "o", "o", "n">>
      [] s = "2025-9-1"   -> <<"2", "0", "2", "5", "-", "9", "-", "1">>
      [] s = "2025-10-01" -> <<"2", "0", "2", "5", "-", "1", "0", "-", "0", "1">>

\* code point of a character
Ord(c) ==
    CASE c = "-" -> 45
      [] c = "0" -> 48 [] c = "1" -> 49 [] c = "2" -> 50 [] c = "3" -> 51
      [] c = "4" -> 52 [] c = "5" -> 53 [] c = "6" -> 54 [] c = "7" -> 55
      [] c = "8" -> 56 [] c = "9" -> 57
      [] c = "n" -> 110 [] c = "o" -> 111 [] c = "s" -> 115

IsDigit(c) == Ord(c) \in 48..57

DigitVal(c) == Ord(c) - 48

DigitChar(n) ==
    CASE n = 0 -> "0" [] n = 1 -> "1" [] n = 2 -> "2" [] n = 3 -> "3"
      [] n = 4 -> "4" [] n = 5 -> "5" [] n = 6 -> "6" [] n = 7 -> "7"
      [] n = 8 -> "8" [] n = 9 -> "9"

\* binary (code point) order of two character sequences: a < b
RECURSIVE SeqLess(_, _)
SeqLess(a, b) ==
    IF b = << >> THEN FALSE
    ELSE IF a = << >> THEN TRUE
    ELSE IF Ord(Head(a)) # Ord(Head(b)) THEN Ord(Head(a)) < Ord(Head(b))
    ELSE SeqLess(Tail(a), Tail(b))

\* the store's $gt and $lte on two string values
StrGt(a, b) == SeqLess(b, a)

StrLte(a, b) == ~SeqLess(b, a)

(* ------------------- datetime.strptime(s, "%Y-%m-%d").date() ----------- *)

\* the fields of a character sequence between its "-" separators
RECURSIVE SplitDash(_)
SplitDash(cs) ==
    IF cs = << >> THEN << << >> >>
    ELSE LET rest == SplitDash(Tail(cs))
         IN  IF Head(cs) = "-" THEN << << >> >> \o rest
             ELSE << <<Head(cs)>> \o Head(rest) >> \o Tail(rest)

AllDigits(f) == \A i \in 1..Len(f) : IsDigit(f[i])

RECURSIVE NumVal(_)
NumVal(f) == IF f = << >> THEN 0 ELSE NumVal(SubSeq(f, 1, Len(f) - 1)) * 10 + DigitVal(f[Len(f)])

\* %Y is \d\d\d\d
MatchesY(f) == Len(f) = 4 /\ AllDigits(f)

\* %m is 1[0-2]|0[1-9]|[1-9]
MatchesM(f) == Len(f) \in 1..2 /\ AllDigits(f) /\ NumVal(f) \in 1..12

\* %d is 3[01]|[12]\d|0[1-9]|[1-9]
MatchesD(f) == Len(f) \in 1..2 /\ AllDigits(f) /\ NumVal(f) \in 1..31

IsLeap(y) == (y % 4 = 0 /\ y % 100 # 0) \/ y % 400 = 0

DaysInMonth(y, m) ==
    IF m = 2 THEN (IF IsLeap(y) THEN 29 ELSE 28)
    ELSE IF m \in {4, 6, 9, 11} THEN 30 ELSE 31

\* the parse raises ValueError exactly when this is FALSE
Parses(s) ==
    LET f == SplitDash(Chars(s))
    IN  /\ Len(f) = 3
        /\ MatchesY(f[1]) /\ MatchesM(f[2]) /\ MatchesD(f[3])
        /\ NumVal(f[1]) >= 1
        /\ NumVal(f[3]) <= DaysInMonth(NumVal(f[1]), NumVal(f[2]))

\* the parsed date, as (year, month, day); defined when Parses(s)
Strptime(s) ==
    LET f == SplitDash(Chars(s))
    IN  <<NumVal(f[1]), NumVal(f[2]), NumVal(f[3])>>

\* order of two dates
DateLess(a, b) ==
    \/ a[1] < b[1]
    \/ a[1] = b[1] /\ a[2] < b[2]
    \/ a[1] = b[1] /\ a[2] = b[2] /\ a[3] < b[3]

\* date.isoformat(): zero-padded YYYY-MM-DD, as characters
Pad(n, w) == [i \in 1..w |-> DigitChar((n \div (10 ^ (w - i))) % 10)]

Isoformat(d) == Pad(d[1], 4) \o <<"-">> \o Pad(d[2], 2) \o <<"-">> \o Pad(d[3], 2)

\* Python truthiness of an Optional[str]
Truthy(s) == s # None /\ s # ""

(* ---------------------------- identifiers ------------------------------ *)

\* value of a timestamp field that was never set
Absent == 0

\* str(ObjectId): the hexadecimal text of the identifier n
StrOfObjectId(n) == <<"oid", n>>

\* a path parameter that is not the text of any ObjectId
Malformed == <<"not-an-id">>

\* ObjectId(announcement_id) raises exactly when this is FALSE
ValidObjectId(s) == Len(s) = 2 /\ s[1] = "oid"

ObjectId(s) == s[2]

(* ---------------------------- state ------------------------------------ *)

VARIABLES
    store,      \* announcements_collection: the set of stored documents
    nextOid,    \* the next ObjectId the store assigns
    clock,      \* datetime.now(); advances when a request starts
    proc,       \* per request slot: the update in flight (position and locals)
    resp,       \* the response the last step sent, if it completed a request
    deleted     \* history: the ObjectIds delete_one has removed

vars == <<store, nextOid, clock, proc, resp, deleted>>

NoPayload == [message |-> None, start_date |-> None, expiration_date |-> None]

\* a slot with no request in flight; also: no response
Idle ==
    [pc |-> "idle", op |-> "none", username |-> "", announcement_id |-> << >>,
     announcement |-> NoPayload, obj_id |-> 0, update_doc |-> << >>,
     status |-> 0, body |-> None,
     calls |-> 0, writes |-> 0, failed |-> FALSE, fetched |-> FALSE, raced |-> FALSE]

\* a request as the framework hands it to its handler
NewRequest(op, username, announcement_id, announcement) ==
    [Idle EXCEPT !.pc = "run", !.op = op, !.username = username,
                 !.announcement_id = announcement_id, !.announcement = announcement]

\* the handler returns body, or raises HTTPException(status, body)
Reply(r, status, body) == [r EXCEPT !.pc = "done", !.status = status, !.body = body]

\* one more store call issued by the request
Called(r) == [r EXCEPT !.calls = @ + 1]

\* the store call raised
StoreError(r) == [Called(r) EXCEPT !.failed = TRUE]

\* a new request takes the first free slot (the slots are interchangeable)
CanStart(p) ==
    /\ clock < MaxReqs
    /\ proc[p].pc = "idle"
    /\ \A q \in Procs : q < p => proc[q].pc # "idle"

\* the announcement_id path parameters a client sends: the identifiers handed
\* out so far, the next one, and a malformed one
IdStrings == {StrOfObjectId(n) : n \in 1..nextOid} \cup {Malformed}

\* request p ends with response r
Respond(p, r) == proc' = [proc EXCEPT ![p] = Idle] /\ resp' = r

\* request p goes on to its next store call
Continue(p, r) == proc' = [proc EXCEPT ![p] = r] /\ resp' = Idle

Init ==
    /\ store = {}
    /\ nextOid = 1
    /\ clock = 0
    /\ proc = [p \in Procs |-> Idle]
    /\ resp = Idle
    /\ deleted = {}

(* ---------------------------- store calls ------------------------------ *)

\* find_one({"_id": oid}) returns a document, not None
Found(coll, oid) == \E d \in coll : d._id = oid

\* find_one({"_id": oid}), when it returns a document
FindOne(coll, oid) == CHOOSE d \in coll : d._id = oid

\* insert_one(doc): the store assigns the identifier oid
InsertOne(coll, doc, oid) == coll \cup {[doc EXCEPT !._id = oid]}

\* variant: the result of update_one is taken to have matched
MatchedCountUnchecked(coll, oid) == 1

\* update_one({"_id": oid}, {"$set": set}).matched_count
MatchedCount(coll, oid) == Cardinality({d \in coll : d._id = oid})

\* $set on one document: the listed fields change, the others stay
ApplySet(d, set) == [k \in DOMAIN d |-> IF k \in DOMAIN set THEN set[k] ELSE d[k]]

\* update_one({"_id": oid}, {"$set": set}), no upsert
UpdateOne(coll, oid, set) ==
    {IF d._id = oid THEN ApplySet(d, set) ELSE d : d \in coll}

\* delete_one({"_id": oid}).deleted_count
DeletedCount(coll, oid) == Cardinality({d \in coll : d._id = oid})

\* variant: a delete that only reports, and removes nothing
DeleteOneKeeps(coll, oid) == coll

\* delete_one({"_id": oid})
DeleteOne(coll, oid) == {d \in coll : d._id # oid}

\* the serialised document: "id" = str(_id), "_id" removed
Serialize(d) ==
    [id |-> StrOfObjectId(d._id), message |-> d.message,
     start_date |-> d.start_date, expiration_date |-> d.expiration_date,
     created_at |-> d.created_at, created_by |-> d.created_by,
     updated_at |-> d.updated_at, updated_by |-> d.updated_by]

\* variant: no check of the caller
AuthenticatedAlways(username) == TRUE

\* `if not username`
Authenticated(username) == username # ""

(* ---------------------------- create ----------------------------------- *)

\* the date validation of create: 200 when it passes, else 400
CreateValidate(a) ==
    IF ~Parses(a.expiration_date) THEN 400
    ELSE IF ~Truthy(a.start_date) THEN 200
    ELSE IF ~Parses(a.start_date) THEN 400
    ELSE IF DateLess(Strptime(a.expiration_date), Strptime(a.start_date)) THEN 400
    ELSE 200

CreateDetail(a) ==
    IF Parses(a.expiration_date) /\ Truthy(a.start_date) /\ Parses(a.start_date)
    THEN "Start date must be before expiration date"
    ELSE "Invalid date format. Use YYYY-MM-DD"

\* variant: the document is built without the start date
CreateDocNoStart(a, username, now) ==
    [_id |-> 0, message |-> a.message, start_date |-> None,
     expiration_date |-> a.expiration_date, created_at |-> now,
     created_by |-> username, updated_at |-> Absent, updated_by |-> None]

\* announcement_doc
CreateDoc(a, username, now) ==
    [_id |-> 0, message |-> a.message, start_date |-> a.start_date,
     expiration_date |-> a.expiration_date, created_at |-> now,
     created_by |-> username, updated_at |-> Absent, updated_by |-> None]

create_announcement(p) ==
    /\ CanStart(p)
    /\ clock' = clock + 1
    /\ UNCHANGED deleted
    /\ \E username \in Usernames, message \in Messages,
          start_date \in DateStrings \cup {None}, expiration_date \in DateStrings :
         LET a == [message |-> message, start_date |-> start_date,
                   expiration_date |-> expiration_date]
             r == NewRequest("create", username, << >>, a)
             doc == CreateDoc(a, username, clock')
         IN  IF ~Authenticated(username)
             THEN /\ Respond(p, Reply(r, 401, "Authentication required"))
                  /\ UNCHANGED <<store, nextOid>>
             ELSE IF CreateValidate(a) # 200
             THEN /\ Respond(p, Reply(r, 400, CreateDetail(a)))
                  /\ UNCHANGED <<store, nextOid>>
             ELSE \/ /\ Respond(p, Reply(StoreError(r), 500, "Failed to create announcement"))
                     /\ UNCHANGED <<store, nextOid>>
                  \/ /\ store' = InsertOne(store, doc, nextOid)
                     /\ nextOid' = nextOid + 1
                     /\ Respond(p, Reply([Called(r) EXCEPT !.writes = 1], 200,
                                         Serialize([doc EXCEPT !._id = nextOid])))

(* ---------------------------- list-active ------------------------------ *)

\* the documents the query of get_active_announcements matches, today a string
FindActive(coll, today) ==
    {d \in coll :
        /\ StrGt(Chars(d.expiration_date), today)
        /\ \/ d.start_date = None
           \/ StrLte(Chars(d.start_date), today)}

\* variant: a store failure is reported as in the other handlers
ActiveResponseRaises(r, coll, today, fail) ==
    IF fail THEN Reply(StoreError(r), 500, "Failed to fetch announcements")
    ELSE Reply(Called(r), 200, {Serialize(d) : d \in FindActive(coll, today)})

\* the response of get_active_announcements: it never raises
ActiveResponse(r, coll, today, fail) ==
    IF fail THEN Reply(StoreError(r), 200, {})
    ELSE Reply(Called(r), 200, {Serialize(d) : d \in FindActive(coll, today)})

get_active_announcements(p) ==
    /\ CanStart(p)
    /\ clock' = clock + 1
    /\ UNCHANGED <<store, nextOid, deleted>>
    /\ \E today \in Todays, fail \in BOOLEAN :
         Respond(p, ActiveResponse(NewRequest("list-active", "", << >>, NoPayload),
                                   store, Isoformat(today), fail))

(* ---------------------------- list-all --------------------------------- *)

\* all orders of the documents of a set
RECURSIVE Orders(_)
Orders(S) ==
    IF S = {} THEN {<< >>}
    ELSE UNION {{<<d>> \o o : o \in Orders(S \ {d})} : d \in S}

\* find().sort("expiration_date", -1): any order that is descending
FindSorted(coll) ==
    {o \in Orders(coll) :
        \A i, j \in 1..Len(o) :
            i < j => ~SeqLess(Chars(o[i].expiration_date), Chars(o[j].expiration_date))}

\* the response of get_all_announcements once the caller is authenticated
AllResponse(r, found, fail) ==
    IF fail THEN Reply(StoreError(r), 500, "Failed to fetch announcements")
    ELSE Reply(Called(r), 200, [i \in 1..Len(found) |-> Serialize(found[i])])

get_all_announcements(p) ==
    /\ CanStart(p)
    /\ clock' = clock + 1
    /\ UNCHANGED <<store, nextOid, deleted>>
    /\ \E username \in Usernames :
         LET r == NewRequest("list-all", username, << >>, NoPayload)
         IN  IF ~Authenticated(username)
             THEN Respond(p, Reply(r, 401, "Authentication required"))
             ELSE \E fail \in BOOLEAN, found \in FindSorted(store) :
                     Respond(p, AllResponse(r, found, fail))

(* ---------------------------- delete ----------------------------------- *)

\* an update that has fetched oid and not yet issued its update_one
BetweenFetchAndUpdate(r, oid) ==
    r.pc = "update_one" /\ r.fetched /\ r.obj_id = oid

delete_announcement(p) ==
    /\ CanStart(p)
    /\ clock' = clock + 1
    /\ UNCHANGED nextOid
    /\ \E username \in Usernames, announcement_id \in IdStrings :
         LET r == NewRequest("delete", username, announcement_id, NoPayload)
             obj_id == ObjectId(announcement_id)
             ro == [r EXCEPT !.obj_id = obj_id]
         IN  IF ~Authenticated(username)
             THEN /\ Respond(p, Reply(r, 401, "Authentication required"))
                  /\ UNCHANGED <<store, deleted>>
             ELSE IF ~ValidObjectId(announcement_id)
             THEN /\ Respond(p, Reply(r, 400, "Invalid announcement ID"))
                  /\ UNCHANGED <<store, deleted>>
             ELSE \/ /\ Respond(p, Reply(StoreError(ro), 500, "Failed to delete announcement"))
                     /\ UNCHANGED <<store, deleted>>
                  \/ /\ DeletedCount(store, obj_id) = 0
                     /\ Respond(p, Reply(Called(ro), 404, "Announcement not found"))
                     /\ UNCHANGED <<store, deleted>>
                  \/ /\ DeletedCount(store, obj_id) # 0
                     /\ store' = DeleteOne(store, obj_id)
                     /\ deleted' = deleted \cup {obj_id}
                     /\ resp' = Reply([Called(ro) EXCEPT !.writes = 1], 200,
                                      "Announcement deleted successfully")
                     /\ proc' = [q \in Procs |->
                                    IF q # p /\ BetweenFetchAndUpdate(proc[q], obj_id)
                                    THEN [proc[q] EXCEPT !.raced = TRUE]
                                    ELSE proc[q]]

(* ---------------------------- update ----------------------------------- *)

PatchFields == {"message", "start_date", "expiration_date"}

\* variant: every field of the payload is copied, None included
BuildUpdateDocAll(a) == [k \in PatchFields |-> a[k]]

\* update_doc: the fields of the payload that are not None
BuildUpdateDoc(a) == [k \in {f \in PatchFields : a[f] # None} |-> a[k]]

TouchesDates(update_doc) ==
    "start_date" \in DOMAIN update_doc \/ "expiration_date" \in DOMAIN update_doc

\* update_doc.get(k, existing.get(k))
Merged(update_doc, existing, k) ==
    IF k \in DOMAIN update_doc THEN update_doc[k] ELSE existing[k]

\* the date validation of update on the merged pair: 200 when it passes, else 400
UpdateValidate(start_date, exp_date) ==
    IF ~(Truthy(start_date) /\ Truthy(exp_date)) THEN 200
    ELSE IF ~Parses(start_date) \/ ~Parses(exp_date) THEN 400
    ELSE IF DateLess(Strptime(exp_date), Strptime(start_date)) THEN 400
    ELSE 200

UpdateDetail(start_date, exp_date) ==
    IF Parses(start_date) /\ Parses(exp_date)
    THEN "Start date must be before expiration date"
    ELSE "Invalid date format. Use YYYY-MM-DD"

\* update_doc with the audit stamps added
Stamped(update_doc, now, username) ==
    [k \in DOMAIN update_doc \cup {"updated_at", "updated_by"} |->
        IF k = "updated_at" THEN now
        ELSE IF k = "updated_by" THEN username
        ELSE update_doc[k]]

\* the handler up to its last step before update_one: the checks, and the
\* existence fetch with the validation of the merged dates
update_announcement(p) ==
    /\ CanStart(p)
    /\ clock' = clock + 1
    /\ UNCHANGED <<store, nextOid, deleted>>
    /\ \E username \in Usernames, announcement_id \in IdStrings,
          message \in NewMessages \cup {None},
          start_date \in DateStrings \cup {None},
          expiration_date \in DateStrings \cup {None} :
         LET a == [message |-> message, start_date |-> start_date,
                   expiration_date |-> expiration_date]
             r == NewRequest("update", username, announcement_id, a)
             obj_id == ObjectId(announcement_id)
             update_doc == BuildUpdateDoc(a)
             ro == [r EXCEPT !.obj_id = obj_id, !.update_doc = update_doc]
             existing == FindOne(store, obj_id)
             exp_date == Merged(update_doc, existing, "expiration_date")
             start == Merged(update_doc, existing, "start_date")
             go == [ro EXCEPT !.pc = "update_one",
                              !.update_doc = Stamped(update_doc, clock', username)]
         IN  IF ~Authenticated(username)
             THEN Respond(p, Reply(r, 401, "Authentication required"))
             ELSE IF ~ValidObjectId(announcement_id)
             THEN Respond(p, Reply(r, 400, "Invalid announcement ID"))
             ELSE IF DOMAIN update_doc = {}
             THEN Respond(p, Reply(ro, 400, "No fields to update"))
             ELSE IF ~TouchesDates(update_doc)
             THEN Continue(p, go)
             ELSE \/ Respond(p, Reply(StoreError(ro), 500, "Failed to update announcement"))
                  \/ IF ~Found(store, obj_id)
                     THEN Respond(p, Reply(Called(ro), 404, "Announcement not found"))
                     ELSE IF UpdateValidate(start, exp_date) # 200
                     THEN Respond(p, Reply(Called(ro), 400, UpdateDetail(start, exp_date)))
                     ELSE Continue(p, [Called(go) EXCEPT !.fetched = TRUE])

\* update_one and the matched_count check
update_announcement_update_one(p) ==
    /\ proc[p].pc = "update_one"
    /\ UNCHANGED <<nextOid, clock, deleted>>
    /\ \E fail \in BOOLEAN :
         LET r == proc[p]
         IN  IF fail
             THEN /\ Respond(p, Reply(StoreError(r), 500, "Failed to update announcement"))
                  /\ UNCHANGED store
             ELSE IF MatchedCount(store, r.obj_id) = 0
             THEN /\ Respond(p, Reply(Called(r), 404, "Announcement not found"))
                  /\ store' = UpdateOne(store, r.obj_id, r.update_doc)
             ELSE /\ Continue(p, [Called(r) EXCEPT !.pc = "find_one", !.writes = 1])
                  /\ store' = UpdateOne(store, r.obj_id, r.update_doc)

\* the re-read of the updated document and its serialisation
update_announcement_find_one(p) ==
    /\ proc[p].pc = "find_one"
    /\ UNCHANGED <<store, nextOid, clock, deleted>>
    /\ \E fail \in BOOLEAN :
         LET r == proc[p]
         IN  IF fail
             THEN Respond(p, Reply(StoreError(r), 500, "Failed to update announcement"))
             ELSE IF ~Found(store, r.obj_id)
             THEN Respond(p, Reply(Called(r), 500, "Failed to update announcement"))
             ELSE Respond(p, Reply(Called(r), 200, Serialize(FindOne(store, r.obj_id))))

(* ---------------------------- specification ---------------------------- *)

Next ==
    \E p \in Procs :
        \/ get_active_announcements(p)
        \/ get_all_announcements(p)
        \/ create_announcement(p)
        \/ update_announcement(p)
        \/ update_announcement_update_one(p)
        \/ update_announcement_find_one(p)
        \/ delete_announcement(p)

Spec == Init /\ [][Next]_vars

(* ---------------------------- properties ------------------------------- *)

\* a document is active on the date today (a date, not a string)
ActiveOn(d, today) ==
    /\ Parses(d.expiration_date)
    /\ DateLess(today, Strptime(d.expiration_date))
    /\ \/ d.start_date = None
       \/ Parses(d.start_date) /\ ~DateLess(today, Strptime(d.start_date))

\* the step completes request slot p's update_one call
UpdateOneStep(p) == proc[p].pc = "update_one" /\ proc'[p].pc # "update_one"

\* the bodies list-all can return for a collection
ListAllBodies(coll) ==
    {AllResponse(Idle, found, FALSE).body : found \in FindSorted(coll)}

\* C1: every stored announcement whose start_date and expiration_date are both
\* dates has start_date <= expiration_date, in every reachable state
C1_StartNotAfterExpiration ==
    \A d \in store :
        (Truthy(d.start_date) /\ Parses(d.start_date) /\ Parses(d.expiration_date))
            => ~DateLess(Strptime(d.expiration_date), Strptime(d.start_date))

\* C2: an update of an existing record by a non-empty caller that supplies a
\* start_date or expiration_date that is not a date never passes validation
\* (it is rejected with 400 before any write)
C2_BadDateRejected ==
    \A p \in Procs :
        (proc[p].pc \in {"update_one", "find_one"} /\ proc[p].fetched)
            => \A k \in {"start_date", "expiration_date"} :
                  proc[p].announcement[k] # None => Parses(proc[p].announcement[k])

\* C3: for every today, the query of list-active matches exactly the stored
\* announcements with expiration_date > today and start_date absent or <= today
C3_ActiveExactly ==
    \A today \in Todays :
        FindActive(store, Isoformat(today)) = {d \in store : ActiveOn(d, today)}

\* C4: an update whose record was deleted between its existence fetch and its
\* update_one ends in 404 at the update_one (no store failure), and the record
\* is not in the collection afterwards
C4_RacedUpdateNotFound ==
    [][\A p \in Procs :
          (UpdateOneStep(p) /\ proc[p].raced /\ ~resp'.failed)
              => /\ resp'.op = "update"
                 /\ resp'.status = 404
                 /\ ~Found(store', proc[p].obj_id)]_vars

C4_Witness == resp.op = "update" /\ resp.raced /\ resp.status = 404

\* C5: the write of an update changes, in its record, only the supplied fields
\* and updated_at / updated_by (updated_by = the caller); every other field of
\* the record and every other record stay as they were
C5_PatchFrame ==
    [][\A p \in Procs :
          (UpdateOneStep(p) /\ proc'[p].pc = "find_one")
              => LET r == proc[p]
                     a == r.announcement
                 IN  /\ Found(store, r.obj_id)
                     /\ Found(store', r.obj_id)
                     /\ LET X == FindOne(store, r.obj_id)
                            Y == FindOne(store', r.obj_id)
                        IN  /\ \A k \in PatchFields :
                                  Y[k] = IF a[k] # None THEN a[k] ELSE X[k]
                            /\ Y._id = X._id
                            /\ Y.created_at = X.created_at
                            /\ Y.created_by = X.created_by
                            /\ Y.updated_by = r.username
                            /\ Y.updated_at # Absent
                            /\ store' \ {Y} = store \ {X}]_vars

C5_Witness ==
    /\ resp.op = "update" /\ resp.status = 200
    /\ resp.announcement.message = None
    /\ resp.announcement.start_date # None
    /\ Cardinality(store) = 2

\* C6: a create, update or delete that ends in 401, 400 or 404 has written
\* nothing and its last step leaves the collection as it was; with an empty
\* caller it ends in 401 and has issued no store call
C6_ErrorsWriteNothing ==
    [][(resp'.pc = "done" /\ resp'.op \in {"create", "update", "delete"})
          => /\ resp'.status \in {400, 401, 404}
                  => (store' = store /\ resp'.writes = 0)
             /\ resp'.username = ""
                  => (resp'.status = 401 /\ resp'.calls = 0 /\ store' = store)]_vars

C6_Witness ==
    /\ resp.op = "update" /\ resp.username = "" /\ resp.status = 401
    /\ resp.announcement_id = Malformed
    /\ resp.announcement = NoPayload
    /\ store # {}

\* C7: list-active always answers 200, with the empty set when the store call
\* fails; list-all by a non-empty caller answers 500 when the store call fails
C7_ActiveFailsOpen ==
    /\ resp.op = "list-active"
          => (resp.status = 200 /\ (resp.failed => resp.body = {}))
    /\ (resp.op = "list-all" /\ resp.username # "" /\ resp.failed)
          => resp.status = 500

C7_Witness == resp.op = "list-active" /\ resp.failed /\ store # {}

\* C8: with no store failure, a delete by a non-empty caller of a well-formed
\* id removes exactly the record with that id when it is stored, and answers
\* 404 otherwise, so also for every id deleted before; an id that was deleted
\* is never stored again
C8_DeleteOnce ==
    [][/\ (resp'.pc = "done" /\ resp'.op = "delete" /\ resp'.username # ""
              /\ ValidObjectId(resp'.announcement_id) /\ ~resp'.failed)
          => IF Found(store, resp'.obj_id)
             THEN /\ resp'.status = 200
                  /\ store' = store \ {FindOne(store, resp'.obj_id)}
                  /\ resp'.obj_id \notin deleted
             ELSE /\ resp'.status = 404
                  /\ store' = store
       /\ \A i \in deleted' : ~Found(store', i)]_vars

C8_Witness == resp.op = "delete" /\ resp.status = 404 /\ resp.obj_id \in deleted

\* C9: a successful create returns an id no stored record had, and every
\* list-all body then holds exactly one record with that id, carrying the
\* inputs and the caller; a record leaves or changes only by an update_one or
\* a delete of its own id
C9_CreateRoundTrip ==
    [][/\ (resp'.op = "create" /\ resp'.status = 200)
          => /\ \A d \in store : StrOfObjectId(d._id) # resp'.body.id
             /\ ListAllBodies(store') # {}
             /\ \A body \in ListAllBodies(store') :
                   /\ Cardinality({i \in 1..Len(body) : body[i].id = resp'.body.id}) = 1
                   /\ \A i \in 1..Len(body) :
                         body[i].id = resp'.body.id
                             => /\ body[i].message = resp'.announcement.message
                                /\ body[i].start_date = resp'.announcement.start_date
                                /\ body[i].expiration_date = resp'.announcement.expiration_date
                                /\ body[i].created_by = resp'.username
       /\ \A d \in store :
             \/ d \in store'
             \/ \E p \in Procs : UpdateOneStep(p) /\ proc[p].obj_id = d._id
             \/ resp'.op = "delete" /\ resp'.status = 200 /\ resp'.obj_id = d._id]_vars

C9_Witness ==
    /\ resp.op = "create" /\ resp.status = 200
    /\ resp.announcement.start_date # None
    /\ Cardinality(store) = 2

\* C10: with no store failure, an update never ends in 500
C10_UpdateNeverInternal ==
    (resp.op = "update" /\ ~resp.failed) => resp.status # 500

====
